---- MODULE Spec2Model ----
(***************************************************************************)
(* Model of docboy.py: a three-stage pipeline (fileworker -> blameworker   *)
(* -> mailworker) over three Queue objects, driven by main().              *)
(***************************************************************************)
EXTENDS Integers, Sequences, FiniteSets, Bags, TLC

(* ---------------------------- bounds ----------------------------------- *)
MaxWorkers == 2      \* worker threads per stage are drawn from 1..MaxWorkers
MaxTasks == 2        \* undocumented declarations in the whole tree: 0..MaxTasks
MaxLines == 3        \* lines of a file given to the scan on its own: 0..MaxLines

(* ---------------------------- constants -------------------------------- *)
COMMENT_END == "*/"
DRY_RUN == FALSE

Queues == {"filenames", "lines", "blames"}
WorkerIds == 1..MaxWorkers

(* The tree walked by os.walk('.'): two .php files and one other file.     *)
Walk == <<"./a.php", "./notes.txt", "./b.php">>
PhpFiles == {"./a.php", "./b.php"}
EndsWithPhp(filename) == filename \in PhpFiles

(* A line of a file is the sequence of its whitespace-delimited tokens.    *)
DunderTokens == {"__construct"}
StartsWithDunder(t) == t \in DunderTokens
DocumentedDecl == << <<COMMENT_END>>, <<"public", "function", "foo">> >>
UndocumentedDecl == <<"public", "function", "bar">>
FileWith(k) == DocumentedDecl \o [i \in 1..k |-> UndocumentedDecl]
Contents == {FileWith(k) : k \in 0..MaxTasks}
Declarations(flines) == Len(flines) - Len(DocumentedDecl)
Trees == {c \in [PhpFiles -> Contents] :
            Declarations(c["./a.php"]) + Declarations(c["./b.php"]) <= MaxTasks}

(* -------------------- gen_undocumented_public_methods ------------------ *)
IsUndocumentedPublic(tokens) ==
    /\ Len(tokens) > 0
    /\ tokens[1] = "public"
    /\ \E i \in 1..Len(tokens) : tokens[i] = "function"
    /\ ~ \E i \in 1..Len(tokens) : StartsWithDunder(tokens[i])

RECURSIVE ScanFrom(_, _, _)
(* linenum is the 0-based index produced by enumerate(f).                  *)
ScanFrom(flines, linenum, has_comment) ==
    IF linenum >= Len(flines) THEN <<>>
    ELSE LET stripped == flines[linenum + 1] IN
         IF stripped = <<COMMENT_END>>
         THEN ScanFrom(flines, linenum + 1, TRUE)
         ELSE IF (~has_comment) /\ IsUndocumentedPublic(stripped)
              THEN <<linenum>> \o ScanFrom(flines, linenum + 1, FALSE)
              ELSE ScanFrom(flines, linenum + 1, FALSE)

gen_undocumented_public_methods(flines) == ScanFrom(flines, 0, FALSE)

(* ------------------------------ git blame ------------------------------ *)
AuthorOf(filename) == IF filename = "./a.php" THEN "alice" ELSE "bob"
MailLine(addr) == [tag |-> "author-mail", addr |-> addr]
OtherLine == [tag |-> "other", addr |-> ""]
BlameOutput(filename) == <<OtherLine, MailLine(AuthorOf(filename))>>
EmptyOutput == <<>>

Unbound == "<unbound>"

RECURSIVE FirstMail(_, _)
(* The for/match/break loop of mailworker: the first matching line wins.   *)
FirstMail(blame, i) ==
    IF i > Len(blame) THEN Unbound
    ELSE IF blame[i].tag = "author-mail" THEN blame[i].addr
         ELSE FirstMail(blame, i + 1)

ExtractEmail(blame, email) ==
    IF FirstMail(blame, 1) # Unbound THEN FirstMail(blame, 1) ELSE email

(* ------------------------------- state --------------------------------- *)
VARIABLES
    pc,          \* position of the driver in main()
    server,      \* "none" | "open" | "closed"
    quitCount,   \* number of server.quit() calls
    raised,      \* a driver-level exception is propagating
    walkIdx,     \* next entry of Walk to look at
    content,     \* file contents (input)
    numWorkers,  \* _NUM_WORKER_THREADS of this run (input)
    queue,       \* Queue.queue of each queue
    pending,     \* Queue.unfinished_tasks of each queue
    fpc, fitem, fidx,     \* fileworkers: position, dequeued file, yields so far
    bpc, bitem,           \* blameworkers: position, dequeued (file, line)
    mpc, mitem, email,    \* mailworkers: position, dequeued task, local email
    lockOwner,   \* mailworker holding lock, or 0
    putBag,      \* history: items put into each queue
    gotBag,      \* history: items returned by get() of each queue
    doneCount,   \* history: task_done() calls per queue
    putLog,      \* history: items in the order they were put, per queue
    getLog,      \* history: items in the order get() returned them, per queue
    failedLookups, \* history: (file, line) tasks for which get_blame raised
    sendCalls,   \* history: completed server.sendmail calls <<email, file, line>>
    scanFile,    \* gen_undocumented_public_methods: the lines of the open file
    linenum,     \* gen_undocumented_public_methods: enumerate index of the next line
    has_comment, \* gen_undocumented_public_methods: the flag
    scanOut      \* gen_undocumented_public_methods: line numbers yielded so far

driverVars == <<pc, server, quitCount, raised, walkIdx>>
scanVars == <<scanFile, linenum, has_comment, scanOut>>
inputVars == <<content, numWorkers, scanVars>>
fileVars == <<fpc, fitem, fidx>>
blameVars == <<bpc, bitem>>
mailVars == <<mpc, mitem, email, lockOwner, sendCalls>>
histVars == <<failedLookups>>
queueVars == <<queue, pending, putBag, gotBag, doneCount, putLog, getLog>>
vars == <<driverVars, inputVars, fileVars, blameVars, mailVars, queueVars, histVars>>

NoItem == <<>>

(* ------------------------------ Queue ---------------------------------- *)
QPut(q, x) ==
    /\ queue' = [queue EXCEPT ![q] = Append(@, x)]
    /\ pending' = [pending EXCEPT ![q] = @ + 1]
    /\ putBag' = [putBag EXCEPT ![q] = @ (+) SetToBag({x})]
    /\ putLog' = [putLog EXCEPT ![q] = Append(@, x)]
    /\ UNCHANGED <<gotBag, doneCount, getLog>>

QPeek(q) ==
    /\ queue[q] # <<>>
    /\ gotBag' = [gotBag EXCEPT ![q] = @ (+) SetToBag({Head(queue[q])})]
    /\ getLog' = [getLog EXCEPT ![q] = Append(@, Head(queue[q]))]
    /\ UNCHANGED <<queue, pending, putBag, doneCount, putLog>>

QGetLast(q) ==
    /\ queue[q] # <<>>
    /\ queue' = [queue EXCEPT ![q] = SubSeq(@, 1, Len(@) - 1)]
    /\ gotBag' = [gotBag EXCEPT ![q] = @ (+) SetToBag({queue[q][Len(queue[q])]})]
    /\ getLog' = [getLog EXCEPT ![q] = Append(@, queue[q][Len(queue[q])])]
    /\ UNCHANGED <<pending, putBag, doneCount, putLog>>

QGet(q) ==
    /\ queue[q] # <<>>
    /\ queue' = [queue EXCEPT ![q] = Tail(@)]
    /\ gotBag' = [gotBag EXCEPT ![q] = @ (+) SetToBag({Head(queue[q])})]
    /\ getLog' = [getLog EXCEPT ![q] = Append(@, Head(queue[q]))]
    /\ UNCHANGED <<pending, putBag, doneCount, putLog>>

QTaskDone(q) ==
    /\ pending' = [pending EXCEPT ![q] = @ - 1]
    /\ doneCount' = [doneCount EXCEPT ![q] = @ + 1]
    /\ UNCHANGED <<queue, putBag, gotBag, putLog, getLog>>

QJoinReturnsWhenEmpty(q) == queue[q] = <<>>

QJoinReturns(q) == pending[q] = 0

(* ------------------------------- Init ---------------------------------- *)
PipelineStart ==
    /\ pc = "connect"
    /\ server = "none"
    /\ quitCount = 0
    /\ raised = FALSE
    /\ walkIdx = 1
    /\ queue = [q \in Queues |-> <<>>]
    /\ pending = [q \in Queues |-> 0]
    /\ fpc = [w \in WorkerIds |-> "unstarted"]
    /\ fitem = [w \in WorkerIds |-> NoItem]
    /\ fidx = [w \in WorkerIds |-> 0]
    /\ bpc = [w \in WorkerIds |-> "unstarted"]
    /\ bitem = [w \in WorkerIds |-> NoItem]
    /\ mpc = [w \in WorkerIds |-> "unstarted"]
    /\ mitem = [w \in WorkerIds |-> NoItem]
    /\ email = [w \in WorkerIds |-> Unbound]
    /\ lockOwner = 0
    /\ putBag = [q \in Queues |-> EmptyBag]
    /\ gotBag = [q \in Queues |-> EmptyBag]
    /\ doneCount = [q \in Queues |-> 0]
    /\ putLog = [q \in Queues |-> <<>>]
    /\ getLog = [q \in Queues |-> <<>>]
    /\ sendCalls = EmptyBag
    /\ failedLookups = {}

ScanIdle ==
    /\ scanFile = <<>>
    /\ linenum = 0
    /\ has_comment = FALSE
    /\ scanOut = <<>>

Init ==
    /\ PipelineStart
    /\ content \in Trees
    /\ numWorkers \in 1..MaxWorkers
    /\ ScanIdle

(* ------------------------------ driver --------------------------------- *)
workerVars == <<fileVars, blameVars, mailVars, histVars>>

ConnectLocalhost ==
    /\ pc = "connect"
    /\ server' = "open"
    /\ pc' = "seed"
    /\ UNCHANGED <<quitCount, raised, walkIdx, inputVars, workerVars, queueVars>>

ConnectLocalhostFail ==
    /\ pc = "connect"
    /\ pc' = "connect_debug"
    /\ UNCHANGED <<server, quitCount, raised, walkIdx, inputVars, workerVars, queueVars>>

ConnectDebug ==
    /\ pc = "connect_debug"
    /\ server' = "open"
    /\ pc' = "seed"
    /\ UNCHANGED <<quitCount, raised, walkIdx, inputVars, workerVars, queueVars>>

ConnectDebugFail ==
    /\ pc = "connect_debug"
    /\ raised' = TRUE
    /\ pc' = "exited"
    /\ UNCHANGED <<server, quitCount, walkIdx, inputVars, workerVars, queueVars>>

AfterSeedStartsAtOnce(i) == "start_file"

AfterSeed(i) == IF i > Len(Walk) THEN "start_file" ELSE "seed"

SeedPut ==
    /\ pc = "seed"
    /\ walkIdx <= Len(Walk)
    /\ EndsWithPhp(Walk[walkIdx])
    /\ QPut("filenames", <<Walk[walkIdx]>>)
    /\ walkIdx' = walkIdx + 1
    /\ pc' = AfterSeed(walkIdx + 1)
    /\ UNCHANGED <<server, quitCount, raised, inputVars, workerVars>>

SeedSkip ==
    /\ pc = "seed"
    /\ walkIdx <= Len(Walk)
    /\ ~EndsWithPhp(Walk[walkIdx])
    /\ walkIdx' = walkIdx + 1
    /\ pc' = AfterSeed(walkIdx + 1)
    /\ UNCHANGED <<server, quitCount, raised, inputVars, workerVars, queueVars>>

_start_daemons(wpc, count) ==
    [w \in WorkerIds |-> IF w <= count THEN "get" ELSE wpc[w]]

StartFileworkers ==
    /\ pc = "start_file"
    /\ fpc' = _start_daemons(fpc, numWorkers)
    /\ pc' = "start_blame"
    /\ UNCHANGED <<server, quitCount, raised, walkIdx, inputVars, fitem, fidx,
                   blameVars, mailVars, queueVars, histVars>>

StartBlameworkers ==
    /\ pc = "start_blame"
    /\ bpc' = _start_daemons(bpc, numWorkers)
    /\ pc' = "start_mail"
    /\ UNCHANGED <<server, quitCount, raised, walkIdx, inputVars, fileVars,
                   bitem, mailVars, queueVars, histVars>>

StartMailworkers ==
    /\ pc = "start_mail"
    /\ mpc' = _start_daemons(mpc, numWorkers)
    /\ pc' = "join_filenames"
    /\ UNCHANGED <<server, quitCount, raised, walkIdx, inputVars, fileVars,
                   blameVars, mitem, email, lockOwner, sendCalls, queueVars, histVars>>

JoinOrderBlamesFirst == <<"filenames", "blames", "lines">>

JoinOrder == <<"filenames", "lines", "blames">>

AfterJoinFirstOnly(i) == "quit"

AfterJoin(i) == IF i < Len(JoinOrder) THEN "join_" \o JoinOrder[i + 1] ELSE "quit"

Join(i) ==
    /\ pc = "join_" \o JoinOrder[i]
    /\ QJoinReturns(JoinOrder[i])
    /\ pc' = AfterJoin(i)
    /\ UNCHANGED <<server, quitCount, raised, walkIdx, inputVars, workerVars, queueVars>>

JoinFilenames == Join(1)
JoinLines == Join(2)
JoinBlames == Join(3)

InTry == {"seed", "start_file", "start_blame", "start_mail",
          "join_filenames", "join_lines", "join_blames"}

(* finally: server.quit() *)
Finally ==
    /\ server' = "closed"
    /\ quitCount' = quitCount + 1
    /\ pc' = "returned"

(* The try block has completed normally.                                   *)
Quit ==
    /\ pc = "quit"
    /\ Finally
    /\ UNCHANGED <<raised, walkIdx, inputVars, workerVars, queueVars>>

DriverExceptionNoFinally ==
    /\ pc \in InTry
    /\ raised' = TRUE
    /\ pc' = "returned"
    /\ UNCHANGED <<server, quitCount, walkIdx, inputVars, workerVars, queueVars>>

(* An exception raised inside the try block: the finally clause runs and   *)
(* the exception leaves main().                                            *)
DriverException ==
    /\ pc \in InTry
    /\ raised' = TRUE
    /\ Finally
    /\ UNCHANGED <<walkIdx, inputVars, workerVars, queueVars>>

(* main() has returned: the interpreter exits and abandons the daemons.    *)
Exit ==
    /\ pc = "returned"
    /\ pc' = "exited"
    /\ UNCHANGED <<server, quitCount, raised, walkIdx, inputVars, workerVars, queueVars>>

ProcessAlive == pc # "exited"

(* ----------------------------- fileworker ------------------------------ *)
FileGet(w) ==
    /\ ProcessAlive
    /\ fpc[w] = "get"
    /\ QGet("filenames")
    /\ fitem' = [fitem EXCEPT ![w] = Head(queue["filenames"])]
    /\ fidx' = [fidx EXCEPT ![w] = 0]
    /\ fpc' = [fpc EXCEPT ![w] = "scan"]
    /\ UNCHANGED <<driverVars, inputVars, blameVars, mailVars, histVars>>

Yields(w) == gen_undocumented_public_methods(content[fitem[w][1]])

FilePut(w) ==
    /\ ProcessAlive
    /\ fpc[w] = "scan"
    /\ fidx[w] < Len(Yields(w))
    /\ QPut("lines", <<fitem[w][1], Yields(w)[fidx[w] + 1]>>)
    /\ fidx' = [fidx EXCEPT ![w] = @ + 1]
    /\ UNCHANGED <<driverVars, inputVars, fpc, fitem, blameVars, mailVars, histVars>>

FileTaskDoneInLoop(w) ==
    /\ ProcessAlive
    /\ fpc[w] = "scan"
    /\ fidx[w] = Len(Yields(w))
    /\ Len(Yields(w)) > 0
    /\ QTaskDone("filenames")
    /\ fpc' = [fpc EXCEPT ![w] = "get"]
    /\ fitem' = [fitem EXCEPT ![w] = NoItem]
    /\ fidx' = [fidx EXCEPT ![w] = 0]
    /\ UNCHANGED <<driverVars, inputVars, blameVars, mailVars, histVars>>

FileTaskDoneBeforePuts(w) ==
    /\ ProcessAlive
    /\ fpc[w] = "scan"
    /\ QTaskDone("filenames")
    /\ fpc' = [fpc EXCEPT ![w] = "get"]
    /\ fitem' = [fitem EXCEPT ![w] = NoItem]
    /\ fidx' = [fidx EXCEPT ![w] = 0]
    /\ UNCHANGED <<driverVars, inputVars, blameVars, mailVars, histVars>>

FileTaskDone(w) ==
    /\ ProcessAlive
    /\ fpc[w] = "scan"
    /\ fidx[w] = Len(Yields(w))
    /\ QTaskDone("filenames")
    /\ fpc' = [fpc EXCEPT ![w] = "get"]
    /\ fitem' = [fitem EXCEPT ![w] = NoItem]
    /\ fidx' = [fidx EXCEPT ![w] = 0]
    /\ UNCHANGED <<driverVars, inputVars, blameVars, mailVars, histVars>>

(* open(filename) raises: the exception leaves fileworker, the thread ends. *)
FileScanFail(w) ==
    /\ ProcessAlive
    /\ fpc[w] = "scan"
    /\ fidx[w] = 0
    /\ fpc' = [fpc EXCEPT ![w] = "dead"]
    /\ UNCHANGED <<driverVars, inputVars, fitem, fidx, blameVars, mailVars, queueVars, histVars>>

(* ----------------------------- blameworker ----------------------------- *)
BlameGet(w) ==
    /\ ProcessAlive
    /\ bpc[w] = "get"
    /\ QGet("lines")
    /\ bitem' = [bitem EXCEPT ![w] = Head(queue["lines"])]
    /\ bpc' = [bpc EXCEPT ![w] = "blame"]
    /\ UNCHANGED <<driverVars, inputVars, fileVars, mailVars, histVars>>

BlamePutAfterTaskDone(w) ==
    \/ /\ ProcessAlive
       /\ bpc[w] = "blame"
       /\ QTaskDone("lines")
       /\ bpc' = [bpc EXCEPT ![w] = "late"]
       /\ UNCHANGED <<driverVars, inputVars, fileVars, bitem, mailVars, histVars>>
    \/ /\ ProcessAlive
       /\ bpc[w] = "late"
       /\ QPut("blames", <<BlameOutput(bitem[w][1]), bitem[w][1], bitem[w][2]>>)
       /\ bpc' = [bpc EXCEPT ![w] = "get"]
       /\ bitem' = [bitem EXCEPT ![w] = NoItem]
       /\ UNCHANGED <<driverVars, inputVars, fileVars, mailVars, histVars>>

(* get_blame returns the porcelain output; blames.put follows.             *)
BlamePut(w) ==
    /\ ProcessAlive
    /\ bpc[w] = "blame"
    /\ QPut("blames", <<BlameOutput(bitem[w][1]), bitem[w][1], bitem[w][2]>>)
    /\ bpc' = [bpc EXCEPT ![w] = "done"]
    /\ UNCHANGED <<driverVars, inputVars, fileVars, bitem, mailVars, histVars>>

(* git exits non-zero: _raw_run returns the empty stdout, which is not     *)
(* None, so get_blame returns it and it is put like any other output.      *)
BlamePutEmpty(w) ==
    /\ ProcessAlive
    /\ bpc[w] = "blame"
    /\ QPut("blames", <<EmptyOutput, bitem[w][1], bitem[w][2]>>)
    /\ bpc' = [bpc EXCEPT ![w] = "done"]
    /\ UNCHANGED <<driverVars, inputVars, fileVars, bitem, mailVars, histVars>>

(* subprocess.Popen raises (OSError): the exception leaves blameworker.    *)
BlameRaise(w) ==
    /\ ProcessAlive
    /\ bpc[w] = "blame"
    /\ bpc' = [bpc EXCEPT ![w] = "dead"]
    /\ failedLookups' = failedLookups \cup {<<bitem[w][1], bitem[w][2]>>}
    /\ UNCHANGED <<driverVars, inputVars, fileVars, bitem, mailVars, queueVars>>

BlameTaskDoneWrongQueue(w) ==
    /\ ProcessAlive
    /\ bpc[w] = "done"
    /\ QTaskDone("blames")
    /\ bpc' = [bpc EXCEPT ![w] = "get"]
    /\ bitem' = [bitem EXCEPT ![w] = NoItem]
    /\ UNCHANGED <<driverVars, inputVars, fileVars, mailVars, histVars>>

BlameTaskDone(w) ==
    /\ ProcessAlive
    /\ bpc[w] = "done"
    /\ QTaskDone("lines")
    /\ bpc' = [bpc EXCEPT ![w] = "get"]
    /\ bitem' = [bitem EXCEPT ![w] = NoItem]
    /\ UNCHANGED <<driverVars, inputVars, fileVars, mailVars, histVars>>

(* ----------------------------- mailworker ------------------------------ *)
AfterExtract == IF DRY_RUN THEN "done" ELSE "lock"

(* blames.get(), then lines 156-163: the loop over the blame lines finds   *)
(* an address, or leaves email as the previous iteration set it.           *)
MailGet(w) ==
    /\ ProcessAlive
    /\ mpc[w] = "get"
    /\ QGet("blames")
    /\ ExtractEmail(Head(queue["blames"])[1], email[w]) # Unbound
    /\ mitem' = [mitem EXCEPT ![w] = Head(queue["blames"])]
    /\ email' = [email EXCEPT ![w] = ExtractEmail(Head(queue["blames"])[1], @)]
    /\ mpc' = [mpc EXCEPT ![w] = AfterExtract]
    /\ UNCHANGED <<driverVars, inputVars, fileVars, blameVars,
                   lockOwner, sendCalls, histVars>>

(* blames.get(), then no line matches and email was never assigned:        *)
(* UnboundLocalError leaves mailworker, the thread ends.                   *)
MailGetUnbound(w) ==
    /\ ProcessAlive
    /\ mpc[w] = "get"
    /\ QGet("blames")
    /\ ExtractEmail(Head(queue["blames"])[1], email[w]) = Unbound
    /\ mitem' = [mitem EXCEPT ![w] = Head(queue["blames"])]
    /\ mpc' = [mpc EXCEPT ![w] = "dead"]
    /\ UNCHANGED <<driverVars, inputVars, fileVars, blameVars, email,
                   lockOwner, sendCalls, histVars>>

LockIgnored(w) == TRUE

(* lock is an RLock: free, or already owned by the caller.                 *)
LockFree(w) == lockOwner \in {0, w}

(* with lock: __enter__ *)
MailAcquire(w) ==
    /\ ProcessAlive
    /\ mpc[w] = "lock"
    /\ LockFree(w)
    /\ lockOwner' = w
    /\ mpc' = [mpc EXCEPT ![w] = "send"]
    /\ UNCHANGED <<driverVars, inputVars, fileVars, blameVars, mitem, email,
                   sendCalls, queueVars, histVars>>

Notification(w) == <<email[w], mitem[w][2], mitem[w][3]>>

LockAfterSend(w) == IF lockOwner = w THEN 0 ELSE lockOwner

(* server.sendmail returns; with lock: __exit__ *)
MailSend(w) ==
    /\ ProcessAlive
    /\ mpc[w] = "send"
    /\ server = "open"
    /\ sendCalls' = sendCalls (+) SetToBag({Notification(w)})
    /\ lockOwner' = LockAfterSend(w)
    /\ mpc' = [mpc EXCEPT ![w] = "done"]
    /\ UNCHANGED <<driverVars, inputVars, fileVars, blameVars, mitem, email,
                   queueVars, histVars>>

MailSendFailKeepsLock(w) ==
    /\ ProcessAlive
    /\ mpc[w] = "send"
    /\ sendCalls' = sendCalls (+) SetToBag({Notification(w)})
    /\ mpc' = [mpc EXCEPT ![w] = "dead"]
    /\ UNCHANGED <<driverVars, inputVars, fileVars, blameVars, mitem, email,
                   lockOwner, queueVars, histVars>>

(* server.sendmail raises; with lock: __exit__ releases, the thread ends.  *)
MailSendFail(w) ==
    /\ ProcessAlive
    /\ mpc[w] = "send"
    /\ sendCalls' = sendCalls (+) SetToBag({Notification(w)})
    /\ lockOwner' = LockAfterSend(w)
    /\ mpc' = [mpc EXCEPT ![w] = "dead"]
    /\ UNCHANGED <<driverVars, inputVars, fileVars, blameVars, mitem, email,
                   queueVars, histVars>>

MailTaskDone(w) ==
    /\ ProcessAlive
    /\ mpc[w] = "done"
    /\ QTaskDone("blames")
    /\ mpc' = [mpc EXCEPT ![w] = "get"]
    /\ mitem' = [mitem EXCEPT ![w] = NoItem]
    /\ UNCHANGED <<driverVars, inputVars, fileVars, blameVars, email,
                   lockOwner, sendCalls, histVars>>

(* ------------- gen_undocumented_public_methods, line by line ----------- *)
BlankLine == <<>>
ScanLines == {<<COMMENT_END>>, BlankLine, UndocumentedDecl,
              <<"public", "function", "__construct">>,
              <<"private", "function", "bar">>,
              <<"public", "$x">>}
ScanInputs == UNION {[1..n -> ScanLines] : n \in 0..MaxLines}

pipelineVars == <<driverVars, content, numWorkers, fileVars, blameVars, mailVars,
                  queueVars, histVars>>

InitScan ==
    /\ PipelineStart
    /\ content = [f \in PhpFiles |-> FileWith(0)]
    /\ numWorkers = 1
    /\ scanFile \in ScanInputs
    /\ linenum = 0
    /\ has_comment = FALSE
    /\ scanOut = <<>>

Stripped == scanFile[linenum + 1]

ScanCommentEnd ==
    /\ linenum < Len(scanFile)
    /\ Stripped = <<COMMENT_END>>
    /\ has_comment' = TRUE
    /\ linenum' = linenum + 1
    /\ UNCHANGED <<scanFile, scanOut, pipelineVars>>

ScanYield ==
    /\ linenum < Len(scanFile)
    /\ Stripped # <<COMMENT_END>>
    /\ ~has_comment
    /\ IsUndocumentedPublic(Stripped)
    /\ scanOut' = Append(scanOut, linenum)
    /\ has_comment' = FALSE
    /\ linenum' = linenum + 1
    /\ UNCHANGED <<scanFile, pipelineVars>>

ScanSkipKeepsFlag ==
    /\ linenum < Len(scanFile)
    /\ Stripped # <<COMMENT_END>>
    /\ has_comment \/ ~IsUndocumentedPublic(Stripped)
    /\ linenum' = linenum + 1
    /\ UNCHANGED <<scanFile, scanOut, has_comment, pipelineVars>>

ScanSkip ==
    /\ linenum < Len(scanFile)
    /\ Stripped # <<COMMENT_END>>
    /\ has_comment \/ ~IsUndocumentedPublic(Stripped)
    /\ has_comment' = FALSE
    /\ linenum' = linenum + 1
    /\ UNCHANGED <<scanFile, scanOut, pipelineVars>>

NextScan ==
    \/ ScanCommentEnd
    \/ ScanYield
    \/ ScanSkip

(* --------------------------- specifications ---------------------------- *)
(* Steps in which no external call fails and no exception reaches main().  *)
NextOK ==
    \/ ConnectLocalhost
    \/ ConnectLocalhostFail
    \/ ConnectDebug
    \/ SeedPut
    \/ SeedSkip
    \/ StartFileworkers
    \/ StartBlameworkers
    \/ StartMailworkers
    \/ JoinFilenames
    \/ JoinLines
    \/ JoinBlames
    \/ Quit
    \/ Exit
    \/ \E w \in WorkerIds : FileGet(w)
    \/ \E w \in WorkerIds : FilePut(w)
    \/ \E w \in WorkerIds : FileTaskDone(w)
    \/ \E w \in WorkerIds : BlameGet(w)
    \/ \E w \in WorkerIds : BlamePut(w)
    \/ \E w \in WorkerIds : BlameTaskDone(w)
    \/ \E w \in WorkerIds : MailGet(w)
    \/ \E w \in WorkerIds : MailAcquire(w)
    \/ \E w \in WorkerIds : MailSend(w)
    \/ \E w \in WorkerIds : MailTaskDone(w)

(* NextOK plus get_blame raising.                                          *)
NextLookup ==
    \/ NextOK
    \/ \E w \in WorkerIds : BlameRaise(w)

Next ==
    \/ NextLookup
    \/ \E w \in WorkerIds : BlamePutEmpty(w)
    \/ \E w \in WorkerIds : MailGetUnbound(w)
    \/ ConnectDebugFail
    \/ DriverException
    \/ \E w \in WorkerIds : FileScanFail(w)
    \/ \E w \in WorkerIds : MailSendFail(w)

Spec == Init /\ [][Next]_vars
SpecOK == Init /\ [][NextOK]_vars
FairSpecOK == SpecOK /\ WF_vars(NextOK)
FairSpecLookup == Init /\ [][NextLookup]_vars /\ WF_vars(NextLookup)
ScanSpec == InitScan /\ [][NextScan]_vars

(* ------------------------------ properties ----------------------------- *)
Emails == {AuthorOf(f) : f \in PhpFiles}

BagOfSeq(sq) ==
    [x \in {sq[i] : i \in DOMAIN sq} |-> Cardinality({i \in DOMAIN sq : sq[i] = x})]

(* Workers that have dequeued an item of q and not called task_done for it *)
Holders(q) ==
    CASE q = "filenames" -> {w \in WorkerIds : fpc[w] \in {"scan", "dead"}}
      [] q = "lines" -> {w \in WorkerIds : bpc[w] \in {"blame", "done", "dead"}}
      [] q = "blames" -> {w \in WorkerIds : mpc[w] \in {"lock", "send", "done", "dead"}}

Held(q) == Cardinality(Holders(q))

(* The driver has returned from the three joins, server.quit() is next.   *)
Drained == pc = "quit"

(* C1: when the driver has returned from filenames.join(), lines.join()    *)
(* and blames.join(), all three queues are empty, all three pending counts *)
(* are 0 and no worker holds an item it has not marked done.               *)
DrainedMeansAllConsumed ==
    Drained => \A q \in Queues :
                   /\ queue[q] = <<>>
                   /\ pending[q] = 0
                   /\ Holders(q) = {}

DrainedAfterWork ==
    /\ Drained
    /\ numWorkers = 2
    /\ BagCardinality(sendCalls) = 2

(* C2: every item put into a queue is either still queued or has been     *)
(* dequeued exactly once, and after a full run the multiset dequeued from  *)
(* each queue (blames in particular) equals the multiset put into it.      *)
NoTaskLostOrDuplicated ==
    /\ \A q \in Queues : gotBag[q] (+) BagOfSeq(queue[q]) = putBag[q]
    /\ Drained => \A q \in Queues : gotBag[q] = putBag[q]

FullRunTwoAnnotatedTasks ==
    /\ Drained
    /\ numWorkers = 2
    /\ BagCardinality(gotBag["blames"]) = 2
    /\ BagCardinality(gotBag["lines"]) = 2

(* C3: when the driver finishes draining, the number of sendmail calls for *)
(* each (file, line) is the number of times the scan of the file yielded   *)
(* the line: none for a file whose scan yields nothing.                    *)
Occurrences(sq, x) == Cardinality({i \in DOMAIN sq : sq[i] = x})

SendCallsFor(f, n) ==
    LET hits == {e \in Emails : BagIn(<<e, f, n>>, sendCalls)}
        RECURSIVE Sum(_)
        Sum(S) == IF S = {} THEN 0
                  ELSE LET e == CHOOSE x \in S : TRUE
                       IN CopiesIn(<<e, f, n>>, sendCalls) + Sum(S \ {e})
    IN Sum(hits)

LineNumbers == 0..(Len(DocumentedDecl) + MaxTasks)

OneNotificationPerDeclaration ==
    Drained => \A f \in PhpFiles : \A n \in LineNumbers :
                   SendCallsFor(f, n) =
                       Occurrences(gen_undocumented_public_methods(content[f]), n)

FanOutTwoAndEmptyFile ==
    /\ Drained
    /\ Len(gen_undocumented_public_methods(content["./a.php"])) = 2
    /\ gen_undocumented_public_methods(content["./b.php"]) = <<>>
    /\ BagCardinality(sendCalls) = 2

(* C4: for each queue the pending count is puts minus task_done calls,     *)
(* which is the items still queued plus the items dequeued and not yet     *)
(* marked done; it is never negative.                                      *)
PendingAccounting ==
    \A q \in Queues :
        /\ pending[q] = BagCardinality(putBag[q]) - doneCount[q]
        /\ pending[q] = Len(queue[q]) + Held(q)
        /\ pending[q] >= 0

PendingCountsInFlight ==
    /\ Held("lines") = 1
    /\ Len(queue["lines"]) = 1
    /\ doneCount["filenames"] > 0
    /\ Held("blames") = 0

(* C5: Queue.join can return exactly when pending is 0, and then no item   *)
(* of that queue is dequeued but not yet marked done.                      *)
JoinReturnsIffPendingZero ==
    \A i \in 1..Len(JoinOrder) :
        pc = "join_" \o JoinOrder[i] =>
            /\ (ENABLED Join(i)) <=> pending[JoinOrder[i]] = 0
            /\ (ENABLED Join(i)) => Held(JoinOrder[i]) = 0

JoinBlockedByHeldItem ==
    /\ pc = "join_lines"
    /\ queue["lines"] = <<>>
    /\ Held("lines") = 1

(* C6: no two mailworkers are inside server.sendmail at the same time, and *)
(* a mailworker inside server.sendmail holds the lock.                     *)
Sending == {w \in WorkerIds : mpc[w] = "send"}

SendmailMutualExclusion ==
    /\ Cardinality(Sending) <= 1
    /\ \A w \in Sending : lockOwner = w

SenderWhileOtherWaits ==
    \E w, v \in WorkerIds : mpc[w] = "send" /\ mpc[v] = "lock"

(* C7: when no external call fails, under fair scheduling the driver       *)
(* eventually returns from the three joins and calls server.quit().        *)
DriverTerminates == <>(quitCount = 1 /\ ~raised)

TerminatedAfterFanOut ==
    /\ quitCount = 1
    /\ ~raised
    /\ \E f \in PhpFiles : Len(gen_undocumented_public_methods(content[f])) = 2

(* C8: a transform that raises does not kill its worker: the worker calls  *)
(* task_done for the item and goes on with the next get().                 *)
Dead == {w \in WorkerIds : fpc[w] = "dead"} \cup {w \in WorkerIds : bpc[w] = "dead"}
            \cup {w \in WorkerIds : mpc[w] = "dead"}

FailingTaskLeavesWorkerAlive == Dead = {}

(* C9: a failing lookup for one (file, line) keeps that task out of the    *)
(* blames queue and does not keep the driver from completing the drains.   *)
FailedTaskInBlames ==
    \E t \in failedLookups : \E blame \in {BlameOutput(t[1]), EmptyOutput} :
        BagIn(<<blame, t[1], t[2]>>, putBag["blames"])

LookupFailureTolerated == [](~FailedTaskInBlames) /\ <>(quitCount = 1)

(* C10: once the channel is acquired, server.quit() is called exactly once *)
(* in a run, on normal completion and after a driver-level exception.      *)
ChannelReleasedExactlyOnce ==
    /\ quitCount <= 1
    /\ server = "none" => quitCount = 0
    /\ (pc \in {"returned", "exited"} /\ server # "none") => quitCount = 1

ReleasedAfterDriverException ==
    /\ pc = "exited"
    /\ raised
    /\ quitCount = 1
    /\ \E w \in WorkerIds : mpc[w] = "send"

(* C11: a fileworker that has dequeued a file whose scan yields k lines    *)
(* puts exactly k items into lines and calls filenames.task_done() exactly *)
(* once for the file, after the k puts (k = 0 included).                   *)
LinesPutFor(f) ==
    Cardinality({i \in DOMAIN putLog["lines"] : putLog["lines"][i][1] = f})

FanOutOf(f) == Len(gen_undocumented_public_methods(content[f]))

FileMarkedDone(w) == fpc[w] = "scan" /\ fpc'[w] = "get"

FanOutThenOneTaskDone ==
    /\ [](\A f \in PhpFiles : LinesPutFor(f) <= FanOutOf(f))
    /\ [](doneCount["filenames"] + Held("filenames")
              = Len(getLog["filenames"]))
    /\ [][\A w \in WorkerIds : FileMarkedDone(w) =>
              /\ LinesPutFor(fitem[w][1]) = FanOutOf(fitem[w][1])
              /\ doneCount'["filenames"] = doneCount["filenames"] + 1
              /\ putLog' = putLog]_vars

ZeroAndTwoFanOutMarkedDone ==
    /\ FanOutOf("./a.php") = 0
    /\ FanOutOf("./b.php") = 2
    /\ doneCount["filenames"] = 2
    /\ LinesPutFor("./b.php") = 2
    /\ LinesPutFor("./a.php") = 0

(* C12: a failure during startup (no SMTP channel on either port, or an    *)
(* exception while seeding) ends the run before any worker thread is       *)
(* started: nothing is dequeued and no scan, lookup or sendmail happens.   *)
StartupFailure ==
    /\ raised
    /\ \/ server = "none"
       \/ walkIdx <= Len(Walk)

NoWorkerEverRan ==
    /\ \A w \in WorkerIds :
           fpc[w] = "unstarted" /\ bpc[w] = "unstarted" /\ mpc[w] = "unstarted"
    /\ \A q \in Queues : getLog[q] = <<>>
    /\ putLog["lines"] = <<>>
    /\ putLog["blames"] = <<>>
    /\ sendCalls = EmptyBag

StartupFailureStartsNoWorker == StartupFailure => NoWorkerEverRan

SeedingFailedAfterFirstFile ==
    /\ raised
    /\ server = "closed"
    /\ walkIdx = 2
    /\ Len(putLog["filenames"]) = 1
    /\ pc = "exited"

(* C13 (as claimed): once the driver has completed teardown after the      *)
(* final drain, every worker of every stage has left its dequeue loop.     *)
InLoop(wpc) == wpc \notin {"unstarted", "dead"}

WorkersStoppedAfterTeardown ==
    (pc = "exited" /\ ~raised /\ quitCount = 1) =>
        \A w \in WorkerIds : ~InLoop(fpc[w]) /\ ~InLoop(bpc[w]) /\ ~InLoop(mpc[w])

(* C13 (amended): the driver sends no stop signal. After a run without a   *)
(* driver exception, when teardown is complete every started worker is     *)
(* still in its loop, blocked in get() on an empty queue.                  *)
Started(w) == w <= numWorkers

WorkersAbandonedInGet ==
    (pc \in {"returned", "exited"} /\ ~raised) =>
        /\ \A q \in Queues : queue[q] = <<>>
        /\ \A w \in WorkerIds :
               Started(w) => fpc[w] = "get" /\ bpc[w] = "get" /\ mpc[w] = "get"

ExitedWithWorkersInGet ==
    /\ pc = "exited"
    /\ ~raised
    /\ numWorkers = 2
    /\ Len(getLog["blames"]) = 2

(* C14: the lock is released on every exit of the send: it is held only by *)
(* a mailworker that is inside server.sendmail, so a mailworker waiting    *)
(* for the lock while nobody is sending can acquire it.                    *)
LockReleasedOnEveryExit ==
    /\ lockOwner # 0 => mpc[lockOwner] = "send"
    /\ \A w \in WorkerIds :
           (mpc[w] = "lock" /\ Sending = {} /\ ProcessAlive) => ENABLED MailAcquire(w)

SendAfterFailedSend ==
    \E w, v \in WorkerIds :
        /\ mpc[w] = "dead"
        /\ BagIn(Notification(w), sendCalls)
        /\ mpc[v] = "send"
        /\ lockOwner = v

(* C15: within each queue, get() returns the items in the order in which   *)
(* they were put: the sequence of dequeued items is a prefix of the        *)
(* sequence of put items, and the queue holds the rest in the same order.  *)
DequeueOrderIsEnqueueOrder ==
    \A q \in Queues :
        /\ Len(getLog[q]) <= Len(putLog[q])
        /\ getLog[q] = SubSeq(putLog[q], 1, Len(getLog[q]))
        /\ queue[q] = SubSeq(putLog[q], Len(getLog[q]) + 1, Len(putLog[q]))

TwoProducersTwoConsumers ==
    /\ Len(getLog["lines"]) = 2
    /\ getLog["lines"][1][1] # getLog["lines"][2][1]
    /\ bpc[1] = "blame"
    /\ bpc[2] = "blame"
    /\ Len(getLog["filenames"]) = 2

(* C16: once seeding is over the filenames pending count never increases;  *)
(* while it is 0 nothing is put into lines, and while the pending counts   *)
(* of filenames and lines are both 0 nothing is put into blames. So no put *)
(* into lines follows the return of filenames.join(), and no put into      *)
(* blames follows the return of lines.join().                              *)
SeedingOver == walkIdx > Len(Walk)

AfterFilenamesJoin == pc \in {"join_lines", "join_blames", "quit"}

AfterLinesJoin == pc \in {"join_blames", "quit"}

UpstreamClosure ==
    /\ [][SeedingOver => pending'["filenames"] <= pending["filenames"]]_vars
    /\ [][(SeedingOver /\ pending["filenames"] = 0)
              => putLog'["lines"] = putLog["lines"]]_vars
    /\ [][(SeedingOver /\ pending["filenames"] = 0 /\ pending["lines"] = 0)
              => putLog'["blames"] = putLog["blames"]]_vars
    /\ [](AfterFilenamesJoin => pending["filenames"] = 0)
    /\ [](AfterLinesJoin => (pending["filenames"] = 0 /\ pending["lines"] = 0))

LinesClosedBlamesStillFilling ==
    /\ pc = "join_lines"
    /\ Len(putLog["lines"]) = 2
    /\ Len(putLog["blames"]) = 1
    /\ \E w \in WorkerIds : bpc[w] = "blame"

(* C17: the scan yields a line exactly when its first token is 'public',   *)
(* 'function' is among its tokens, no token starts with '__' and the line  *)
(* just before it is not COMMENT_END; the has_comment flag is set only     *)
(* while the line just read is COMMENT_END.                                *)
ShouldYield(flines, i) ==
    LET tokens == flines[i + 1] IN
    /\ tokens # <<>>
    /\ Head(tokens) = "public"
    /\ "function" \in {tokens[j] : j \in DOMAIN tokens}
    /\ \A j \in DOMAIN tokens : tokens[j] \notin DunderTokens
    /\ i = 0 \/ flines[i] # <<COMMENT_END>>

ScanYieldsExactlyUndocumented ==
    /\ {scanOut[j] : j \in DOMAIN scanOut}
           = {i \in 0..(linenum - 1) : ShouldYield(scanFile, i)}
    /\ \A j, k \in DOMAIN scanOut : j < k => scanOut[j] < scanOut[k]
    /\ has_comment <=> (linenum > 0 /\ scanFile[linenum] = <<COMMENT_END>>)
    /\ linenum = Len(scanFile) => scanOut = gen_undocumented_public_methods(scanFile)

BlankLineAfterCommentEnd ==
    /\ scanFile = <<<<COMMENT_END>>, BlankLine, UndocumentedDecl>>
    /\ linenum = 3
    /\ scanOut = <<2>>

(* C18: the address a mailworker notifies for its dequeued task is the one *)
(* extracted from that task's own blame output, never one left over from   *)
(* a task the worker handled earlier.                                      *)
Notifying == {w \in WorkerIds : mpc[w] \in {"lock", "send", "done"}}

NotifiedIdentityFromOwnBlame ==
    \A w \in Notifying : email[w] = FirstMail(mitem[w][1], 1)

(* C19: no server.sendmail call starts or is in progress once the driver   *)
(* has called server.quit(), runs with a driver-level exception included.  *)
NoSendAfterQuit == server = "closed" => Sending = {}

(* C20: the line number of a task is the 1-based number of the declaration *)
(* itself, as git blame -L and the message read it, in the lines queue,    *)
(* the blames queue and the sendmail calls alike.                          *)
OwnLines(flines) == {n \in 1..Len(flines) : ShouldYield(flines, n - 1)}

LineNumberIsDeclarationLine ==
    /\ \A i \in DOMAIN putLog["lines"] :
           putLog["lines"][i][2] \in OwnLines(content[putLog["lines"][i][1]])
    /\ \A i \in DOMAIN putLog["blames"] :
           putLog["blames"][i][3] \in OwnLines(content[putLog["blames"][i][2]])
    /\ \A w \in Sending : mitem[w][3] \in OwnLines(content[mitem[w][2]])

====
